---- MODULE Spec2Model ----
(***************************************************************************)
(* Model of the `processes` package: construction of a Process over a task *)
(* list (validation and Kahn topological sort, process.py) and its         *)
(* execution by ProcessRunner, sequentially or on a thread pool.           *)
(*                                                                         *)
(* Task names are the integers 1..MaxTasks.  Names are opaque labels, so   *)
(* the caller's list is taken to be <<task 1, task 2, ...>>: every list of *)
(* uniquely named tasks is a renaming of such a list.  The dependency      *)
(* edges are arbitrary (cycles and edges to absent names included).        *)
(***************************************************************************)
EXTENDS Integers, Sequences, FiniteSets, TLC

\* Bounds of the model.
MaxTasks == 3
MaxWorkers == 3
MaxRuns == 2

\* Process.run: "parallel = len(self.tasks) >= 10".
AutoParallelThreshold == 10

\* TaskResult.result of a failed task.
None == 0

VARIABLES
    input,            \* the list the caller hands to Process(tasks)
    tasks,            \* Process.tasks
    pc,               \* control position of the caller / engine thread
    ctor_error,       \* exception raised by Process.__init__, or "none"
    passed_results,   \* ProcessRunner.passed_results: name -> TaskResult
    failed_tasks,     \* ProcessRunner.failed_tasks
    submitted_tasks,  \* ProcessRunner.submitted_tasks
    parallel,         \* the mode ProcessRunner.run was last entered with
    max_workers,      \* the max_workers _run_parallel was last entered with, 0 if never
    pool_size,        \* worker threads of the live ThreadPoolExecutor, 0 if none
    fut_to_name,      \* _run_parallel's fut_to_name (one future per name)
    work_queue,       \* submitted work items not yet picked up by a worker
    executing,        \* tasks whose callable is executing right now
    fut_result,       \* finished futures: name -> TaskResult
    idx,              \* position of _run_sequential's for loop
    result,           \* what the last run call produced
    runs,             \* number of run calls started
    calls,            \* per task: invocations of its callable in this run call
    outcome,          \* per task: how its callable ended in this run call
    fixed,            \* per task: the outcome its callable always has, or "any"
    observe,          \* what is logged: a subset of {"request", "reports", "calls", "log",
                      \* "message", "annotation"}
    request,          \* the arguments of the last run call (if logged)
    reports,          \* the run calls that ended, as they ended (if logged)
    stored,           \* per task of input: the Task's args, kwargs, dependencies
    received,         \* per task: what its callable was called with (if logged)
    unnamed,          \* the tasks whose func has no __name__ attribute
    log,              \* the records the tasks' loggers got in this run call (if logged)
    call,             \* the last call other than Process(tasks) and run
    answer,           \* what that call returned or raised
    handlers          \* per task name: the handlers attached to the logger of that name

vars == <<input, tasks, pc, ctor_error, passed_results, failed_tasks,
          submitted_tasks, parallel, max_workers, pool_size, fut_to_name,
          work_queue, executing, fut_result, idx, result, runs, calls, outcome,
          fixed, observe, request, reports, stored, received,
          unnamed, log, call, answer, handlers>>

TaskNames == 1..MaxTasks

EmptyMap == [x \in {} |-> x]

Put(f, k, v) == [x \in (DOMAIN f) \cup {k} |-> IF x = k THEN v ELSE f[x]]

\* ------------------------------------------------------------------ Task
\* Task(name, ..., dependencies): a task and the producers it names.
Task(name, deps) == [name |-> name, dependencies |-> deps]

\* TaskResult(worked, result, exception)
TaskResult(worked, res, exc) == [worked |-> worked, result |-> res, exception |-> exc]

\* The value the callable of a task returns when it returns.
FuncValue(name) == name

\* Task.run with the result stored as None (mutation of TaskRun).
TaskRunDropsValue(task, raises) ==
    IF raises THEN TaskResult(FALSE, None, "Exception")
    ELSE TaskResult(TRUE, None, "None")

\* Task.run: the callable either returns a value or raises; both are
\* captured in a TaskResult.
TaskRun(task, raises) ==
    IF raises THEN TaskResult(FALSE, None, "Exception")
    ELSE TaskResult(TRUE, FuncValue(task.name), "None")

\* TaskDependency(task_name, use_result_as_additional_args,
\*                use_result_as_additional_kwargs, additional_kwarg_name)
TaskDependency(task_name, as_args, as_kwargs, kwarg_name) ==
    [task_name |-> task_name,
     use_result_as_additional_args |-> as_args,
     use_result_as_additional_kwargs |-> as_kwargs,
     additional_kwarg_name |-> kwarg_name]

\* The body of Task.run's loop over self.dependencies with the value put
\* in front of the positional arguments (mutation of InjectOne).
InjectOnePrepends(dep, passed, final) ==
    LET dep_result == passed[dep.task_name].result IN
      [args   |-> IF dep.use_result_as_additional_args
                  THEN <<dep_result>> \o final.args ELSE final.args,
       kwargs |-> IF dep.use_result_as_additional_kwargs
                  THEN Put(final.kwargs, dep.additional_kwarg_name, dep_result)
                  ELSE final.kwargs]

\* The body of Task.run's loop with a keyword that never replaces an entry
\* already present (mutation of InjectOne).
InjectOneKeepsEntry(dep, passed, final) ==
    LET dep_result == passed[dep.task_name].result IN
      [args   |-> IF dep.use_result_as_additional_args
                  THEN Append(final.args, dep_result) ELSE final.args,
       kwargs |-> IF /\ dep.use_result_as_additional_kwargs
                     /\ dep.additional_kwarg_name \notin DOMAIN final.kwargs
                  THEN Put(final.kwargs, dep.additional_kwarg_name, dep_result)
                  ELSE final.kwargs]

\* The body of Task.run's loop over self.dependencies: final_args and
\* final_kwargs after one more dependency.
InjectOne(dep, passed, final) ==
    LET dep_result == passed[dep.task_name].result IN
      [args   |-> IF dep.use_result_as_additional_args
                  THEN Append(final.args, dep_result) ELSE final.args,
       kwargs |-> IF dep.use_result_as_additional_kwargs
                  THEN Put(final.kwargs, dep.additional_kwarg_name, dep_result)
                  ELSE final.kwargs]

\* Task.run's loop over self.dependencies from position k on.
RECURSIVE Inject(_, _, _, _)
Inject(dependencies, k, passed, final) ==
    IF k > Len(dependencies) THEN final
    ELSE Inject(dependencies, k + 1, passed, InjectOne(dependencies[k], passed, final))

\* What Task.run calls func with: final_args and final_kwargs, built from
\* copies of self.args and self.kwargs.
FinalCall(task, passed) ==
    Inject(task.dependencies, 1, passed, [args |-> task.args, kwargs |-> task.kwargs])

\* A Task.run that keeps what it built in self.args and self.kwargs
\* (mutation of TaskAfterRun).
TaskAfterRunWritesBack(task, final) ==
    [task EXCEPT !.args = final.args, !.kwargs = final.kwargs]

\* The Task's stored fields after Task.run: it only assigns to its locals.
TaskAfterRun(task, final) == task

\* The dependency list of a task whose edges inject nothing, by name.
RECURSIVE PlainEdges(_)
PlainEdges(names) ==
    IF names = {} THEN <<>>
    ELSE LET m == CHOOSE x \in names : \A y \in names : x <= y
         IN  <<TaskDependency(m, FALSE, FALSE, "")>> \o PlainEdges(names \ {m})

\* The stored fields of Task(name, log_path, func, dependencies=[...]): no
\* base arguments, edges that inject nothing.
PlainTask(t) ==
    [args |-> <<>>, kwargs |-> EmptyMap, dependencies |-> PlainEdges(t.dependencies)]

PlainTasks(ts) == [k \in DOMAIN ts |-> PlainTask(ts[k])]

\* Keyword names used for injection and in base kwargs.
KwNames == {"a", "b"}

\* The TaskDependency objects on the given producers.  TaskDependency's
\* constructor wants a non-empty additional_kwarg_name when the result is
\* used as a keyword; the name is left at its default otherwise.
EdgeObjects(names) ==
    { TaskDependency(n, as_args, FALSE, "") : n \in names, as_args \in BOOLEAN }
    \cup { TaskDependency(n, as_args, TRUE, kw) :
               n \in names, as_args \in BOOLEAN, kw \in KwNames }

\* The dependency lists a Task can be given on exactly these producers, in
\* every order of declaration.
EdgeLists(names) ==
    { d \in [1..Cardinality(names) -> EdgeObjects(names)] :
          \A i, j \in DOMAIN d : i # j => d[i].task_name # d[j].task_name }

\* Base arguments of a consumer: none, or args=(10,) with kwargs={"a": 20}.
BaseChoices ==
    { [args |-> <<>>, kwargs |-> EmptyMap],
      [args |-> <<10>>, kwargs |-> [kw \in {"a"} |-> 20]] }

\* Task lists a caller can build: Task.__init__ rejects a dependency on the
\* task itself and duplicate dependency names.
InputTaskLists ==
    UNION { { [k \in 1..n |-> Task(k, D[k])] :
                D \in { E \in [1..n -> SUBSET TaskNames] :
                          \A k \in 1..n : k \notin E[k] } } :
            n \in 0..MaxTasks }

\* Every Task object: Task's constructor admits no self-dependency and no
\* repeated dependency name.
TaskObjects ==
    UNION { { Task(name, deps) : deps \in SUBSET (TaskNames \ {name}) } :
            name \in TaskNames }

\* Every list of n Task objects: names may repeat.
AnyTaskLists(n) == [1..n -> TaskObjects]

Names(ts) == { ts[k].name : k \in DOMAIN ts }

\* Lists in which the last task is the only one with dependencies.
FanInLists ==
    { ts \in InputTaskLists :
          /\ Len(ts) >= 1
          /\ \A k \in DOMAIN ts : k < Len(ts) => ts[k].dependencies = {}
          /\ ts[Len(ts)].dependencies \subseteq Names(ts) }

\* The Task objects behind a fan-in list: the producers are plain, the
\* consumer has base arguments and any injection flags on its edges.
StoredChoices(ts) ==
    { [k \in DOMAIN ts |->
          IF k < Len(ts) THEN PlainTask(ts[k])
          ELSE [args |-> b.args, kwargs |-> b.kwargs, dependencies |-> d]] :
      b \in BaseChoices, d \in EdgeLists(ts[Len(ts)].dependencies) }

\* ------------------------------------------------- Process construction
\* An element of the list that is not a Task (an int, say): it has no name,
\* no dependencies and no logger.
NotATask == Task(None, {})

\* _check_input_types, for a list: some element is not a Task.
HasNonTask(ts) == \E k \in DOMAIN ts : ts[k] = NotATask

\* _check_duplicate_names comparing neighbours in the list only (mutation of
\* HasDuplicateNames).
HasDuplicateNamesAdjacent(ts) ==
    \E a, b \in DOMAIN ts : a + 1 = b /\ ts[a].name = ts[b].name

\* _check_duplicate_names
HasDuplicateNames(ts) ==
    \E a, b \in DOMAIN ts : a < b /\ ts[a].name = ts[b].name

\* _check_dependencies_exist that only knows the tasks listed before the
\* dependent one (mutation of HasMissingDependency).
HasMissingDependencyBefore(ts) ==
    \E k \in DOMAIN ts : \E dep \in ts[k].dependencies :
        dep \notin { ts[j].name : j \in 1..(k - 1) }

\* _check_dependencies_exist
HasMissingDependency(ts) ==
    \E k \in DOMAIN ts : \E dep \in ts[k].dependencies : dep \notin Names(ts)

\* task_map[n]: the task named n.
TaskNamed(ts, n) == ts[CHOOSE k \in DOMAIN ts : ts[k].name = n]

\* task_map = {t.name: t for t in self.tasks}
TaskMap(ts) == [n \in Names(ts) |-> TaskNamed(ts, n)]

\* in_degree after the edge loop: one increment per dependency of the task.
InDegree(ts) == [n \in Names(ts) |-> Cardinality(TaskNamed(ts, n).dependencies)]

\* graph after the edge loop: producer -> its consumers, in list order.
Graph(ts) ==
    [u \in Names(ts) |->
        LET F[k \in 0..Len(ts)] ==
                IF k = 0 THEN <<>>
                ELSE IF u \in ts[k].dependencies
                     THEN Append(F[k - 1], ts[k].name)
                     ELSE F[k - 1]
        IN  F[Len(ts)]]

\* queue = [name for name, deg in in_degree.items() if deg == 0]
InitialQueue(ts, in_degree) ==
    LET F[k \in 0..Len(ts)] ==
            IF k = 0 THEN <<>>
            ELSE IF in_degree[ts[k].name] = 0
                 THEN Append(F[k - 1], ts[k].name)
                 ELSE F[k - 1]
    IN  F[Len(ts)]

\* The inner loop with the decrement forgotten (mutation of Relax).
RelaxNoDecrement(vs, in_degree, queue) ==
    [in_degree |-> in_degree, queue |-> queue]

\* for v in graph[u]: in_degree[v] -= 1; if in_degree[v] == 0: queue.append(v)
RECURSIVE Relax(_, _, _)
Relax(vs, in_degree, queue) ==
    IF vs = <<>> THEN [in_degree |-> in_degree, queue |-> queue]
    ELSE LET v == Head(vs)
             d == [in_degree EXCEPT ![v] = @ - 1]
         IN  Relax(Tail(vs), d, IF d[v] = 0 THEN Append(queue, v) ELSE queue)

\* while queue: u = queue.pop(0); sorted_tasks.append(task_map[u]); ...
RECURSIVE KahnLoop(_, _, _, _)
KahnLoop(ts, queue, in_degree, sorted_tasks) ==
    IF queue = <<>> THEN sorted_tasks
    ELSE LET u == Head(queue)
             r == Relax(Graph(ts)[u], in_degree, Tail(queue))
         IN  KahnLoop(ts, r.queue, r.in_degree,
                      Append(sorted_tasks, TaskMap(ts)[u]))

\* _topological_sort with "self.tasks = sorted_tasks" forgotten
\* (mutation of TopologicalSort).
TopologicalSortKeepsInput(ts) ==
    LET sorted_tasks == KahnLoop(ts, InitialQueue(ts, InDegree(ts)), InDegree(ts), <<>>)
    IN  IF Len(sorted_tasks) # Len(ts)
        THEN [error |-> "CircularDependencyError", tasks |-> ts]
        ELSE [error |-> "none", tasks |-> ts]

\* _topological_sort: the new value of self.tasks, or the error raised.
TopologicalSort(ts) ==
    LET sorted_tasks == KahnLoop(ts, InitialQueue(ts, InDegree(ts)), InDegree(ts), <<>>)
    IN  IF Len(sorted_tasks) # Len(ts)
        THEN [error |-> "CircularDependencyError", tasks |-> ts]
        ELSE [error |-> "none", tasks |-> sorted_tasks]

\* The body of the try block of Process.__init__: the checks in order, then
\* the sort; the first failing step raises.
\* The try block with _check_dependencies_exist called before
\* _check_duplicate_names (mutation of Checks).
ChecksMissingFirst(ts) ==
    IF HasNonTask(ts) THEN [error |-> "TypeError", tasks |-> ts]
    ELSE IF HasMissingDependency(ts)
         THEN [error |-> "DependencyNotFoundError", tasks |-> ts]
    ELSE IF HasDuplicateNames(ts) THEN [error |-> "ValueError", tasks |-> ts]
    ELSE TopologicalSort(ts)

Checks(ts) ==
    IF HasNonTask(ts) THEN [error |-> "TypeError", tasks |-> ts]
    ELSE IF HasDuplicateNames(ts) THEN [error |-> "ValueError", tasks |-> ts]
    ELSE IF HasMissingDependency(ts)
         THEN [error |-> "DependencyNotFoundError", tasks |-> ts]
         ELSE TopologicalSort(ts)

\* close_loggers reads task.logger of every element of the list: an element
\* that is not a Task has none.
CloseLoggers(ts) == IF HasNonTask(ts) THEN "AttributeError" ELSE "none"

\* Process.__init__: when a check raises, the except clause calls
\* close_loggers and raises the exception again, unless close_loggers raised.
Validate(ts) ==
    LET v == Checks(ts) IN
      IF v.error # "none" /\ CloseLoggers(ts) # "none"
      THEN [error |-> CloseLoggers(ts), tasks |-> ts]
      ELSE v

\* ------------------------------------------------------- ProcessRunner
\* _is_unrunnable with "some dependency has not passed" as the test
\* (mutation of IsUnrunnable).
IsUnrunnableNotPassed(task, failed, passed) ==
    \E d \in task.dependencies : d \notin DOMAIN passed

\* _is_unrunnable that never reports a failed dependency (mutation).
IsUnrunnableNever(task, failed, passed) == FALSE

\* _is_unrunnable: some dependency is in failed_tasks.  (The caller adds the
\* task to failed_tasks when this holds.)
IsUnrunnable(task, failed, passed) ==
    \E d \in task.dependencies : d \in failed

\* _all_deps_met that is always satisfied (mutation of AllDepsMet).
AllDepsMetAlways(task, passed) == TRUE

\* _all_deps_met
AllDepsMet(task, passed) ==
    \A d \in task.dependencies : d \in DOMAIN passed

\* The candidates comprehension of _run_parallel, evaluated task by task in
\* list order; _is_unrunnable adds to failed_tasks while it runs.
RECURSIVE Scan(_, _, _, _, _, _)
Scan(ts, k, submitted, failed, passed, candidates) ==
    IF k > Len(ts) THEN [failed |-> failed, candidates |-> candidates]
    ELSE LET t == ts[k] IN
         IF t.name \in submitted \/ t.name \in failed
         THEN Scan(ts, k + 1, submitted, failed, passed, candidates)
         ELSE IF IsUnrunnable(t, failed, passed)
              THEN Scan(ts, k + 1, submitted, failed \cup {t.name}, passed, candidates)
              ELSE IF AllDepsMet(t, passed)
                   THEN Scan(ts, k + 1, submitted, failed, passed,
                             Append(candidates, t.name))
                   ELSE Scan(ts, k + 1, submitted, failed, passed, candidates)

SeqToSet(s) == { s[k] : k \in DOMAIN s }

\* A pool one thread larger than asked for (mutation of PoolSize).
PoolSizeOneMore(w) == w + 1

\* A pool without threads (mutation of PoolSize).
PoolSizeNoThread(w) == 0

\* ThreadPoolExecutor(max_workers=max_workers)
PoolSize(w) == w

\* Process.run: the mode and worker count handed to ProcessRunner.run.
EffectiveWorkers(mw) == IF mw < 1 THEN 1 ELSE mw

\* Process.run without the fall-back to the sequential strategy when one
\* worker is asked for (mutation of EffectiveParallel).
EffectiveParallelNoFallback(ts, par, mw) ==
    IF par = "None" THEN Len(ts) >= AutoParallelThreshold ELSE par = "True"

\* Process.run choosing the parallel strategy only above the threshold.
EffectiveParallelAbove(ts, par, mw) ==
    LET p == IF par = "None" THEN Len(ts) > AutoParallelThreshold ELSE par = "True"
    IN  p /\ EffectiveWorkers(mw) # 1

EffectiveParallel(ts, par, mw) ==
    LET p == IF par = "None" THEN Len(ts) >= AutoParallelThreshold ELSE par = "True"
    IN  p /\ EffectiveWorkers(mw) # 1

NoCalls == [n \in TaskNames |-> 0]
NoOutcome == [n \in TaskNames |-> "none"]
NoRequest == <<"none", 0>>
NoneReceived == [n \in TaskNames |-> <<>>]
NoCall == <<"none", None>>
NoAnswer == [error |-> "unset", value |-> None]
AnyOutcome == [n \in TaskNames |-> "any"]

\* The callable of task n may end this way (it raises, or it returns).
Allowed(n, raises) ==
    fixed[n] = "any" \/ fixed[n] = (IF raises THEN "raised" ELSE "returned")

\* What the caller logs when a run call ends with res.
CallRecord(res) ==
    [request |-> request, parallel |-> parallel, max_workers |-> max_workers,
     result |-> res, passed |-> passed_results, failed |-> failed_tasks]

\* ------------------------------------------------------------ actions
InitCore(lists) ==
    /\ input \in lists
    /\ tasks = input
    /\ pc = "new"
    /\ ctor_error = "none"
    /\ passed_results = EmptyMap
    /\ failed_tasks = {}
    /\ submitted_tasks = {}
    /\ parallel = FALSE
    /\ max_workers = 0
    /\ pool_size = 0
    /\ fut_to_name = {}
    /\ work_queue = <<>>
    /\ executing = {}
    /\ fut_result = EmptyMap
    /\ idx = 0
    /\ result = "none"
    /\ runs = 0
    /\ calls = NoCalls
    /\ outcome = NoOutcome
    /\ request = NoRequest
    /\ reports = <<>>
    /\ received = NoneReceived
    /\ log = <<>>
    /\ answer = NoAnswer

\* Task.__init__ attaches a file handler to the logger named after the task.
FileHandlers(ts) == [n \in Names(ts) |-> <<"file">>]

InitWith(lists) ==
    /\ InitCore(lists)
    /\ handlers = FileHandlers(input)

InitPlain(lists) ==
    /\ InitWith(lists)
    /\ stored = PlainTasks(input)
    /\ unnamed = {}
    /\ call = NoCall

InitBase == InitPlain(InputTaskLists)

\* Callables whose outcome may differ from one invocation to the next; the
\* caller keeps no log.
Init ==
    /\ InitBase
    /\ fixed = AnyOutcome
    /\ observe = {}

\* The nested find(name) of get_dependant_tasks, its loop at position k,
\* found being the list shared by all the nested calls.
RECURSIVE Find(_, _, _, _)
Find(ts, name, k, found) ==
    IF k > Len(ts) THEN found
    ELSE IF name \in ts[k].dependencies /\ ts[k] \notin SeqToSet(found)
         THEN Find(ts, name, k + 1, Find(ts, ts[k].name, 1, Append(found, ts[k])))
         ELSE Find(ts, name, k + 1, found)

\* get_dependant_tasks without the nested call: the direct dependants only.
GetDependantTasksDirect(ts, name) ==
    [error |-> "none",
     value |-> SelectSeq(ts, LAMBDA t : name \in t.dependencies)]

GetDependantTasks(ts, name) == [error |-> "none", value |-> Find(ts, name, 1, <<>>)]

\* Task.run's except block reads self.func.__name__ while it builds the
\* report: when func has no such attribute (a functools.partial, say) the
\* AttributeError leaves Task.run.
TaskRunRaises(task, raises) == raises /\ task.name \in unnamed

\* What a future holds once Task.run is over on a pool thread.  An exception
\* that left Task.run is kept by the future; result() raises it again and
\* the wait loop's except clause puts the task into failed_tasks, as it does
\* for a TaskResult that did not work.
FutureOutcome(task, raises) ==
    IF TaskRunRaises(task, raises) THEN TaskResult(FALSE, None, "AttributeError")
    ELSE TaskRun(task, raises)

\* The log after the task's logger got the records of the given kinds.
Logged(kinds, n) ==
    IF "log" \in observe THEN log \o [k \in DOMAIN kinds |-> <<kinds[k], n>>] ELSE log

\* The record Task.run logs after the call of func: "Finished" by
\* logger.info, or the exception by logger.exception; none when the except
\* block itself raised.
FinishRecords(task, raises) ==
    IF TaskRunRaises(task, raises) THEN <<>>
    ELSE IF raises THEN <<"failure">> ELSE <<"success">>

\* The position in input of the task named n.
\* The except block of Task.run, when it runs to its end: the names it lists
\* under "Downstream Impact" in the record passed to logger.exception.
FailureAnnotation(task) ==
    LET found == GetDependantTasks(tasks, task.name).value
    IN  [task |-> task.name, skipped |-> [i \in DOMAIN found |-> found[i].name]]

\* What the end of Task.run adds to the log: the annotation of a failure
\* when annotations are observed, the finish record otherwise.
FinishLog(task, raises) ==
    IF "annotation" \in observe
    THEN IF raises /\ ~TaskRunRaises(task, raises)
         THEN Append(log, FailureAnnotation(task)) ELSE log
    ELSE Logged(FinishRecords(task, raises), task.name)

InputIndex(n) == CHOOSE k \in DOMAIN input : input[k].name = n

\* Task.run of the task named n starts: it builds the arguments from the
\* Task's stored fields and passed_results, logs "Starting" and calls func.
EnterTaskRun(n) ==
    LET task == stored[InputIndex(n)]
        final == FinalCall(task, passed_results)
    IN  /\ stored' = [stored EXCEPT ![InputIndex(n)] = TaskAfterRun(task, final)]
        /\ received' = IF "calls" \in observe
                        THEN [received EXCEPT ![n] = Append(@, final)]
                        ELSE received
        /\ log' = Logged(<<"start">>, n)

\* Process(tasks): validation, sort, and the creation of the runner.
\* One pass of "for handler in logger.handlers: ...; removeHandler(handler)":
\* the list shrinks under the loop, which so skips every other handler.
RemoveWhileIterating(hs) ==
    [i \in 1..(Len(hs) \div 2) |-> hs[2 * i]]

\* close_loggers from position k of the list on; it stops at an element
\* that has no logger.
RECURSIVE CloseLoggersFrom(_, _, _)
CloseLoggersFrom(ts, k, hs) ==
    IF k > Len(ts) \/ ts[k] = NotATask THEN hs
    ELSE CloseLoggersFrom(ts, k + 1,
                          [hs EXCEPT ![ts[k].name] = RemoveWhileIterating(@)])

\* The task names that the message of the CircularDependencyError carries:
\* the message is the literal "Circular dependency detected." and names none.
CycleMessagePath(ts) == <<>>

Construct ==
    /\ pc = "new"
    /\ LET v == Validate(tasks) IN
         /\ tasks' = v.tasks
         /\ ctor_error' = v.error
         /\ pc' = IF v.error = "none" THEN "idle" ELSE "ctor_error"
         /\ answer' = IF "message" \in observe
                       THEN [error |-> v.error,
                             value |-> IF v.error = "CircularDependencyError"
                                       THEN CycleMessagePath(tasks) ELSE <<>>]
                       ELSE answer
         /\ handlers' = IF v.error = "none" THEN handlers
                         ELSE CloseLoggersFrom(tasks, 1, handlers)
    /\ passed_results' = EmptyMap
    /\ failed_tasks' = {}
    /\ submitted_tasks' = {}
    /\ UNCHANGED <<input, parallel, max_workers, pool_size, fut_to_name, work_queue,
                   executing, fut_result, idx, result, runs, calls, outcome,
                   fixed, observe, unnamed, log, call, stored, received, request, reports>>

\* Process.run(parallel, max_workers) up to the first step of the strategy.
ProcessRun(par, mw) ==
    /\ pc = "idle"
    /\ runs < MaxRuns
    /\ runs' = runs + 1
    /\ parallel' = EffectiveParallel(tasks, par, mw)
    /\ IF parallel'
       THEN /\ pc' = "par"
            /\ max_workers' = EffectiveWorkers(mw)
            /\ pool_size' = PoolSize(max_workers')
            /\ idx' = 0
       ELSE /\ pc' = "seq"
            /\ UNCHANGED <<max_workers, pool_size>>
            /\ idx' = 1
    /\ fut_to_name' = {}
    /\ result' = "none"
    /\ calls' = NoCalls
    /\ outcome' = NoOutcome
    /\ log' = <<>>
    /\ UNCHANGED <<input, tasks, ctor_error, passed_results, failed_tasks,
                   submitted_tasks, work_queue, executing, fut_result,
                   fixed, observe, handlers, unnamed, call, answer, stored, received, reports>>

\* The caller calls Process.run(parallel=par, max_workers=mw).
StartRun(par, mw) ==
    /\ ProcessRun(par, mw)
    /\ request' = IF "request" \in observe THEN <<par, mw>> ELSE request

\* One iteration of _run_sequential's loop up to the call of task.run.
SeqStep ==
    /\ pc = "seq"
    /\ idx <= Len(tasks)
    /\ LET task == tasks[idx] IN
         IF IsUnrunnable(task, failed_tasks, passed_results)
         THEN /\ failed_tasks' = failed_tasks \cup {task.name}
              /\ idx' = idx + 1
              /\ UNCHANGED <<pc, executing, calls, stored, received, log>>
         ELSE IF AllDepsMet(task, passed_results)
              THEN /\ pc' = "seq_call"
                   /\ executing' = {task.name}
                   /\ calls' = [calls EXCEPT ![task.name] = @ + 1]
                   /\ EnterTaskRun(task.name)
                   /\ UNCHANGED <<failed_tasks, idx>>
              ELSE /\ idx' = idx + 1
                   /\ UNCHANGED <<pc, executing, calls, failed_tasks, stored, received, log>>
    /\ UNCHANGED <<input, tasks, ctor_error, passed_results, submitted_tasks, parallel,
                   max_workers, pool_size, fut_to_name, work_queue, fut_result,
                   result, runs, outcome,
                   fixed, observe, handlers, unnamed, call, answer, request, reports>>

\* task.run is over in _run_sequential: its result is recorded, or the
\* exception that left it leaves _run_sequential, ProcessRunner.run and
\* Process.run.
SeqFinish(raises) ==
    /\ pc = "seq_call"
    /\ Allowed(tasks[idx].name, raises)
    /\ LET task == tasks[idx]
           res == TaskRun(task, raises)
       IN  /\ IF TaskRunRaises(task, raises)
              THEN /\ pc' = "idle"
                   /\ idx' = 0
                   /\ result' = "AttributeError"
                   /\ reports' = IF "reports" \in observe
                                 THEN Append(reports, CallRecord("AttributeError"))
                                 ELSE reports
                   /\ UNCHANGED <<passed_results, failed_tasks>>
              ELSE /\ pc' = "seq"
                   /\ idx' = idx + 1
                   /\ IF res.worked
                      THEN /\ passed_results' = Put(passed_results, task.name, res)
                           /\ UNCHANGED failed_tasks
                      ELSE /\ failed_tasks' = failed_tasks \cup {task.name}
                           /\ UNCHANGED passed_results
                   /\ UNCHANGED <<result, reports>>
           /\ outcome' = [outcome EXCEPT ![task.name] =
                              IF raises THEN "raised" ELSE "returned"]
           /\ log' = FinishLog(task, raises)
    /\ executing' = {}
    /\ UNCHANGED <<input, tasks, ctor_error, submitted_tasks, parallel, max_workers,
                   pool_size, fut_to_name, work_queue, fut_result, runs, calls,
                   fixed, observe, handlers, unnamed, call, answer, stored, received, request>>

\* _run_sequential is over: ProcessRunner.run returns the ProcessResult.
SeqReturn ==
    /\ pc = "seq"
    /\ idx > Len(tasks)
    /\ pc' = "idle"
    /\ idx' = 0
    /\ result' = "ProcessResult"
    /\ reports' = IF "reports" \in observe
                  THEN Append(reports, CallRecord("ProcessResult"))
                  ELSE reports
    /\ UNCHANGED <<input, tasks, ctor_error, passed_results, failed_tasks,
                   submitted_tasks, parallel, max_workers, pool_size, fut_to_name,
                   work_queue, executing, fut_result, runs, calls, outcome,
                   fixed, observe, handlers, unnamed, log, call, answer, stored, received, request>>

\* _run_parallel: the loop test, the candidate scan, the submissions, and
\* the branch on fut_to_name (block in wait, or raise the stall error).
ParLoop ==
    /\ pc = "par"
    /\ IF Cardinality(DOMAIN passed_results) + Cardinality(failed_tasks) < Len(tasks)
       THEN LET s == Scan(tasks, 1, submitted_tasks, failed_tasks, passed_results, <<>>)
                futs == fut_to_name \cup SeqToSet(s.candidates)
            IN  /\ failed_tasks' = s.failed
                /\ submitted_tasks' = submitted_tasks \cup SeqToSet(s.candidates)
                /\ work_queue' = work_queue \o s.candidates
                /\ fut_to_name' = futs
                /\ IF futs # {}
                   THEN /\ pc' = "par_wait"
                        /\ UNCHANGED result
                   ELSE /\ pc' = "par_exit"
                        /\ result' = "RuntimeError"
       ELSE /\ pc' = "par_exit"
            /\ result' = "ProcessResult"
            /\ UNCHANGED <<failed_tasks, submitted_tasks, work_queue, fut_to_name>>
    /\ UNCHANGED <<input, tasks, ctor_error, passed_results, parallel, max_workers,
                   pool_size, executing, fut_result, idx, runs, calls, outcome,
                   fixed, observe, handlers, unnamed, log, call, answer, stored, received, request, reports>>

\* concurrent.futures.wait(..., FIRST_COMPLETED) returns the finished futures;
\* each is popped and recorded as passed or failed.
ParWait ==
    /\ pc = "par_wait"
    /\ LET done == fut_to_name \cap DOMAIN fut_result IN
         /\ done # {}
         /\ fut_to_name' = fut_to_name \ done
         /\ passed_results' =
                [n \in (DOMAIN passed_results) \cup {d \in done : fut_result[d].worked} |->
                    IF n \in done THEN fut_result[n] ELSE passed_results[n]]
         /\ failed_tasks' = failed_tasks \cup {d \in done : ~fut_result[d].worked}
         /\ fut_result' = [n \in (DOMAIN fut_result) \ done |-> fut_result[n]]
    /\ pc' = "par"
    /\ UNCHANGED <<input, tasks, ctor_error, submitted_tasks, parallel, max_workers,
                   pool_size, work_queue, executing, idx, result, runs, calls, outcome,
                   fixed, observe, handlers, unnamed, log, call, answer, stored, received, request, reports>>

\* Leaving the "with ThreadPoolExecutor" block: shutdown waits for the work
\* still in the pool, then run returns the ProcessResult or the error
\* propagates to the caller.
ParExit ==
    /\ pc = "par_exit"
    /\ work_queue = <<>>
    /\ executing = {}
    /\ pc' = "idle"
    /\ pool_size' = 0
    /\ fut_to_name' = {}
    /\ fut_result' = EmptyMap
    /\ reports' = IF "reports" \in observe
                  THEN Append(reports, CallRecord(result))
                  ELSE reports
    /\ UNCHANGED <<input, tasks, ctor_error, passed_results, failed_tasks,
                   submitted_tasks, parallel, max_workers, work_queue, executing, idx,
                   result, runs, calls, outcome,
                   fixed, observe, handlers, unnamed, log, call, answer, stored, received, request>>

\* A pool thread takes the oldest work item and enters task.run.
WorkerStart ==
    /\ pc \in {"par", "par_wait", "par_exit"}
    /\ work_queue # <<>>
    /\ Cardinality(executing) < pool_size
    /\ LET n == Head(work_queue) IN
         /\ executing' = executing \cup {n}
         /\ calls' = [calls EXCEPT ![n] = @ + 1]
         /\ EnterTaskRun(n)
    /\ work_queue' = Tail(work_queue)
    /\ UNCHANGED <<input, tasks, pc, ctor_error, passed_results, failed_tasks,
                   submitted_tasks, parallel, max_workers, pool_size, fut_to_name,
                   fut_result, idx, result, runs, outcome,
                   fixed, observe, handlers, unnamed, call, answer, request, reports>>

\* A pool thread that records its own result in the runner's state
\* (mutation of WorkerFinish).
WorkerFinishRecords(n, raises) ==
    /\ pc \in {"par", "par_wait", "par_exit"}
    /\ n \in executing
    /\ Allowed(n, raises)
    /\ executing' = executing \ {n}
    /\ fut_result' = Put(fut_result, n, FutureOutcome(TaskNamed(tasks, n), raises))
    /\ passed_results' = IF raises THEN passed_results
                          ELSE Put(passed_results, n, TaskRun(TaskNamed(tasks, n), FALSE))
    /\ failed_tasks' = IF raises THEN failed_tasks \cup {n} ELSE failed_tasks
    /\ log' = FinishLog(TaskNamed(tasks, n), raises)
    /\ outcome' = [outcome EXCEPT ![n] = IF raises THEN "raised" ELSE "returned"]
    /\ UNCHANGED <<input, tasks, pc, ctor_error,
                   submitted_tasks, parallel, max_workers, pool_size, fut_to_name,
                   work_queue, idx, result, runs, calls,
                   fixed, observe, handlers, unnamed, call, answer, stored, received, request, reports>>

\* task.run returns on a pool thread: the future is finished.
WorkerFinish(n, raises) ==
    /\ pc \in {"par", "par_wait", "par_exit"}
    /\ n \in executing
    /\ Allowed(n, raises)
    /\ executing' = executing \ {n}
    /\ fut_result' = Put(fut_result, n, FutureOutcome(TaskNamed(tasks, n), raises))
    /\ log' = FinishLog(TaskNamed(tasks, n), raises)
    /\ outcome' = [outcome EXCEPT ![n] = IF raises THEN "raised" ELSE "returned"]
    /\ UNCHANGED <<input, tasks, pc, ctor_error, passed_results, failed_tasks,
                   submitted_tasks, parallel, max_workers, pool_size, fut_to_name,
                   work_queue, idx, result, runs, calls,
                   fixed, observe, handlers, unnamed, call, answer, stored, received, request, reports>>

Next ==
    \/ Construct
    \/ \E par \in {"None", "True", "False"}, mw \in 0..MaxWorkers : StartRun(par, mw)
    \/ SeqStep
    \/ \E raises \in BOOLEAN : SeqFinish(raises)
    \/ SeqReturn
    \/ ParLoop
    \/ ParWait
    \/ ParExit
    \/ WorkerStart
    \/ \E n \in TaskNames, raises \in BOOLEAN : WorkerFinish(n, raises)

Spec == Init /\ [][Next]_vars

\* The engine thread keeps running, the pool's threads take queued work
\* whenever one is idle, and every callable terminates.
Fairness ==
    /\ WF_vars(SeqStep)
    /\ WF_vars(\E raises \in BOOLEAN : SeqFinish(raises))
    /\ WF_vars(SeqReturn)
    /\ WF_vars(ParLoop)
    /\ WF_vars(ParWait)
    /\ WF_vars(ParExit)
    /\ WF_vars(WorkerStart)
    /\ WF_vars(\E n \in TaskNames, raises \in BOOLEAN : WorkerFinish(n, raises))

\* Run calls in both modes, the parallel ones with the smallest pool that
\* Process.run does not turn into a sequential run.
NextFair ==
    \/ Construct
    \/ \E par \in {"True", "False"} : StartRun(par, 2)
    \/ SeqStep
    \/ \E raises \in BOOLEAN : SeqFinish(raises)
    \/ SeqReturn
    \/ ParLoop
    \/ ParWait
    \/ ParExit
    \/ WorkerStart
    \/ \E n \in TaskNames, raises \in BOOLEAN : WorkerFinish(n, raises)

SpecFair == Init /\ [][NextFair]_vars /\ Fairness

\* The same program with a caller that logs every run call as it ends.
InitObserved ==
    /\ InitBase
    /\ fixed = AnyOutcome
    /\ observe = {"request", "reports"}

SpecObserved == InitObserved /\ [][Next]_vars

\* Deterministic callables: each callable ends the same way at every
\* invocation.  The caller logs every run call.
InitDet ==
    /\ InitBase
    /\ fixed \in { f \in [TaskNames -> {"returned", "raised"}] :
                     \A n \in TaskNames : n > Len(input) => f[n] = "returned" }
    /\ observe = {"request", "reports"}

SpecDet == InitDet /\ [][Next]_vars

\* Fan-in lists whose consumer takes base arguments and injected results.
\* The callables always return, so the consumer is invoked in every run call
\* that reaches it; every call of a callable is logged.
InitInject ==
    /\ InitWith(FanInLists)
    /\ stored \in StoredChoices(input)
    /\ unnamed = {}
    /\ call = NoCall
    /\ fixed = [n \in TaskNames |-> "returned"]
    /\ observe = {"calls"}

SpecInject == InitInject /\ [][Next]_vars

\* Callables of either kind, with or without a __name__; the records the
\* loggers get are kept.
InitUnnamed ==
    /\ InitWith(InputTaskLists)
    /\ stored = PlainTasks(input)
    /\ unnamed \in SUBSET Names(input)
    /\ call = NoCall
    /\ fixed = AnyOutcome
    /\ observe = {"log"}

SpecUnnamed == InitUnnamed /\ [][Next]_vars

\* ---- Construction and first sequential run, input in any order ----

\* Process(tasks) over every list of Task objects, then the first run with
\* the sequential strategy; every callable either always returns or always
\* raises.
FirstSequentialRun ==
    /\ runs = 0
    /\ \E par \in {"None", "False"} : StartRun(par, MaxWorkers)

NextPerm ==
    \/ Construct
    \/ FirstSequentialRun
    \/ SeqStep
    \/ \E raises \in BOOLEAN : SeqFinish(raises)
    \/ SeqReturn

InitPerm ==
    /\ \E n \in 0..MaxTasks : InitPlain(AnyTaskLists(n))
    /\ IF Validate(input).error = "none"
       THEN fixed \in [TaskNames -> {"returned", "raised"}]
       ELSE fixed = [m \in TaskNames |-> "returned"]
    /\ \A m \in TaskNames \ Names(input) : fixed[m] = "returned"
    /\ observe = {}

SpecPerm == InitPerm /\ [][NextPerm]_vars

\* ---- Process.run(parallel=None) on small and large graphs ----

\* Graphs of n tasks, below and above the threshold of Process.run: n tasks
\* without dependencies, and a chain of n tasks.
LargeTaskLists ==
    UNION { { [k \in 1..n |-> Task(k, {})],
              [k \in 1..n |-> Task(k, IF k = 1 THEN {} ELSE {k - 1})] } :
            n \in 0..(AutoParallelThreshold + MaxTasks) }

\* Construction and the entry of Process.run, up to the choice of strategy.
NextAuto ==
    \/ Construct
    \/ \E par \in {"None", "True", "False"}, mw \in 0..MaxWorkers : StartRun(par, mw)

InitAuto ==
    /\ InitPlain(LargeTaskLists)
    /\ fixed = AnyOutcome
    /\ observe = {"request"}

SpecAuto == InitAuto /\ [][NextAuto]_vars

\* ---- Process.get_task and Process.get_dependant_tasks ----

\* get_task answering None instead of raising for a name not in the graph.
GetTaskNoRaise(ts, name) ==
    IF \E i \in DOMAIN ts : ts[i].name = name
    THEN [error |-> "none", value |-> ts[CHOOSE i \in DOMAIN ts : ts[i].name = name]]
    ELSE [error |-> "none", value |-> None]

\* The loop of get_task from position k on: the first task of that name is
\* returned, TaskNotFoundError is raised after the loop.
RECURSIVE GetTaskFrom(_, _, _)
GetTaskFrom(ts, name, k) ==
    IF k > Len(ts) THEN [error |-> "TaskNotFoundError", value |-> None]
    ELSE IF ts[k].name = name THEN [error |-> "none", value |-> ts[k]]
    ELSE GetTaskFrom(ts, name, k + 1)

GetTask(ts, name) == GetTaskFrom(ts, name, 1)

UnchangedByQuery ==
    UNCHANGED <<input, tasks, pc, ctor_error, passed_results, failed_tasks,
                submitted_tasks, parallel, max_workers, pool_size, fut_to_name,
                work_queue, executing, fut_result, idx, result, runs, calls,
                outcome, fixed, observe, handlers, request, reports, stored, received,
                unnamed, log>>

\* process.get_task(n) on a constructed Process.
CallGetTask(n) ==
    /\ pc = "idle"
    /\ call' = <<"get_task", n>>
    /\ answer' = GetTask(tasks, n)
    /\ UnchangedByQuery

\* process.get_dependant_tasks(n) on a constructed Process.
CallGetDependantTasks(n) ==
    /\ pc = "idle"
    /\ call' = <<"get_dependant_tasks", n>>
    /\ answer' = GetDependantTasks(tasks, n)
    /\ UnchangedByQuery

NextQuery ==
    \/ Construct
    \/ \E n \in TaskNames : CallGetTask(n)
    \/ \E n \in TaskNames : CallGetDependantTasks(n)

InitQuery ==
    /\ InitBase
    /\ fixed = AnyOutcome
    /\ observe = {}

SpecQuery == InitQuery /\ [][NextQuery]_vars

\* ---- Task(name, ..., dependencies) ----

MaxNameLen == 2
MaxDeps == 2

\* The characters of a task name: two letters and the whitespace characters.
NameChars == {"a", "b", " ", "\t", "\n"}

\* A name is a string: a sequence of characters, possibly empty.
NameStrings == UNION { [1..n -> NameChars] : n \in 0..MaxNameLen }

\* The producers a dependency list of the task called nm may name.
ProducerNames(nm) == {nm, <<"a">>, <<"b">>}

DependencyLists(nm) ==
    UNION { [1..n -> { TaskDependency(p, FALSE, FALSE, None) : p \in ProducerNames(nm) }] :
            n \in 0..MaxDeps }

\* The loop over self.dependencies from edge k on, seen being
\* depedencies_names: TRUE when it raises ValueError.
RECURSIVE DependencyLoop(_, _, _, _)
DependencyLoop(name, deps, k, seen) ==
    IF k > Len(deps) THEN FALSE
    ELSE IF deps[k].task_name \in seen THEN TRUE
    ELSE IF deps[k].task_name = name THEN TRUE
    ELSE DependencyLoop(name, deps, k + 1, seen \cup {deps[k].task_name})

\* " " in self.name
ContainsSpace(name) == \E i \in DOMAIN name : name[i] = " "

\* Task.__init__ without the comparison of an edge with the task's own name.
TaskInitNoSelfCheck(name, deps) ==
    IF ContainsSpace(name)
         \/ \E i, j \in DOMAIN deps : i < j /\ deps[i].task_name = deps[j].task_name
    THEN [error |-> "ValueError", value |-> None]
    ELSE [error |-> "none", value |-> Task(name, deps)]

\* Task.__init__ for well-typed arguments: the exception it raises, or the
\* Task it leaves constructed.
TaskInit(name, deps) ==
    IF ContainsSpace(name) THEN [error |-> "ValueError", value |-> None]
    ELSE IF DependencyLoop(name, deps, 1, {}) THEN [error |-> "ValueError", value |-> None]
    ELSE [error |-> "none", value |-> Task(name, deps)]

\* The call Task(name, log_path, func, dependencies=deps).
TaskConstruct ==
    /\ call[1] = "Task"
    /\ answer.error = "unset"
    /\ answer' = TaskInit(call[2].name, call[2].dependencies)
    /\ UNCHANGED <<input, tasks, pc, ctor_error, passed_results, failed_tasks,
                   submitted_tasks, parallel, max_workers, pool_size, fut_to_name,
                   work_queue, executing, fut_result, idx, result, runs, calls,
                   outcome, fixed, observe, handlers, request, reports, stored, received,
                   unnamed, log, call>>

InitTask ==
    /\ InitWith({<<>>})
    /\ stored = PlainTasks(input)
    /\ unnamed = {}
    /\ fixed = [n \in TaskNames |-> "returned"]
    /\ observe = {}
    /\ \E nm \in NameStrings : \E ds \in DependencyLists(nm) :
         call = <<"Task", [name |-> nm, dependencies |-> ds]>>

SpecTask == InitTask /\ [][TaskConstruct]_vars

\* Run calls with the failure annotations observed; some of the callables
\* may have no __name__.
InitAnnotated ==
    /\ InitWith(InputTaskLists)
    /\ stored = PlainTasks(input)
    /\ unnamed \in SUBSET Names(input)
    /\ call = NoCall
    /\ fixed = AnyOutcome
    /\ observe = {"annotation"}

SpecAnnotated == InitAnnotated /\ [][Next]_vars

\* Process(tasks) alone; a Task given an html_mail_handler has a mail handler
\* after its file handler.
InitHandlers ==
    /\ \E n \in 0..MaxTasks : InitCore(AnyTaskLists(n))
    /\ stored = PlainTasks(input)
    /\ unnamed = {}
    /\ call = NoCall
    /\ handlers \in [Names(input) -> {<<"file">>, <<"file", "mail">>}]
    /\ fixed = AnyOutcome
    /\ observe = {}

SpecHandlers == InitHandlers /\ [][Construct]_vars

\* Process(tasks) alone, the exception message observed.
InitMessage ==
    /\ InitBase
    /\ fixed = AnyOutcome
    /\ observe = {"message"}

SpecMessage == InitMessage /\ [][Construct]_vars

\* Process(tasks) alone, over every list of Task objects and other objects.
InitTypes ==
    /\ \E n \in 0..MaxTasks : InitPlain([1..n -> TaskObjects \cup {NotATask}])
    /\ fixed = AnyOutcome
    /\ observe = {}

SpecTypes == InitTypes /\ [][Construct]_vars

\* Process(tasks) alone, over every list of Task objects.
InitCtor ==
    /\ \E n \in 0..MaxTasks : InitPlain(AnyTaskLists(n))
    /\ fixed = AnyOutcome
    /\ observe = {}

SpecCtor == InitCtor /\ [][Construct]_vars

\* A caller that only asks for parallel=True with max_workers <= 1 or for
\* parallel=False, and logs what it asked for.
NextFallback ==
    \/ Construct
    \/ \E par \in {"True", "False"}, k \in -1..1 : StartRun(par, k)
    \/ SeqStep
    \/ \E raises \in BOOLEAN : SeqFinish(raises)
    \/ SeqReturn

InitFallback ==
    /\ InitBase
    /\ fixed = AnyOutcome
    /\ observe = {"request"}

SpecFallback == InitFallback /\ [][NextFallback]_vars

\* ProcessResult(self.passed_results, self.failed_tasks): the report holds
\* the runner's own dict and set.
ReportPassed == passed_results
ReportFailed == failed_tasks

\* ------------------------------------------------- vocabulary of the claims
DepsOf(ts, n) == TaskNamed(ts, n).dependencies

RECURSIVE Closure(_, _, _)
Closure(ts, S, k) ==
    IF k = 0 THEN S
    ELSE Closure(ts, S \cup UNION { DepsOf(ts, n) : n \in S \cap Names(ts) }, k - 1)

\* The direct and transitive dependencies of the task named n.
TransitiveDeps(ts, n) == Closure(ts, DepsOf(ts, n), Len(ts))

HasCycle(ts) == \E n \in Names(ts) : n \in TransitiveDeps(ts, n)

Constructed == pc \notin {"new", "ctor_error"}
InRun == pc \in {"seq", "seq_call", "par", "par_wait", "par_exit"}
RunEnded == pc = "idle" /\ runs > 0

\* The tasks whose callable raised in the current run call.
Raised == { n \in Names(tasks) : outcome[n] = "raised" }

\* A direct or transitive dependency of t raised in the current run call.
UpstreamRaised(t) == Raised # {} /\ Raised \cap TransitiveDeps(tasks, t) # {}

\* The tasks whose callable raised in this run call, with their dependents.
ExpectedFailed == { t \in Names(tasks) : outcome[t] = "raised" \/ UpstreamRaised(t) }

ReportExact ==
    /\ ReportFailed = ExpectedFailed
    /\ DOMAIN ReportPassed = Names(tasks) \ ExpectedFailed
    /\ \A n \in DOMAIN ReportPassed :
          /\ outcome[n] = "returned"
          /\ ReportPassed[n] = TaskResult(TRUE, FuncValue(n), "None")

C2_RunReturnsFullReport ==
    RunEnded =>
        /\ result = "ProcessResult"
        /\ Cardinality(DOMAIN ReportPassed) + Cardinality(ReportFailed) = Len(tasks)

\* C3: on a graph that passed construction the parallel strategy never
\* raises the "Parallel execution stalled" RuntimeError.
C3_NeverStalls == result # "RuntimeError"

C5_SortedPermutation ==
    (pc = "idle" /\ runs = 0) =>
        /\ Len(tasks) = Len(input)
        /\ \A k \in DOMAIN input :
              Cardinality({ j \in DOMAIN tasks : tasks[j] = input[k] }) = 1
        /\ \A a, b \in DOMAIN tasks :
              tasks[a].name \in tasks[b].dependencies => a < b

\* C5 witness: a constructed Process of three tasks whose order differs from
\* the input order.
C5_Witness ==
    /\ pc = "idle" /\ runs = 0
    /\ Len(input) = 3
    /\ tasks # input

\* C6: over uniquely named, dependency-complete lists, construction raises
\* CircularDependencyError exactly when the dependency relation has a cycle.
C6_CycleIffRejected ==
    (pc \in {"idle", "ctor_error"} /\ runs = 0 /\ ~HasDuplicateNames(input)
        /\ ~HasMissingDependency(input)) =>
        ((ctor_error = "CircularDependencyError") <=> HasCycle(input))

\* C6 witness: a cycle of length three is rejected.
C6_Witness ==
    /\ ctor_error = "CircularDependencyError"
    /\ Len(input) = 3
    /\ \A k \in DOMAIN input : Cardinality(input[k].dependencies) = 1
    /\ \A a, b \in DOMAIN input :
          ~(a \in input[b].dependencies /\ b \in input[a].dependencies)

\* C7: the report returned by the first run call is exact: failed_tasks is
\* the set of tasks whose callable raised with their transitive dependents,
\* and passed_tasks_results maps every other task to the value returned.
C7_FirstReportExact ==
    (RunEnded /\ runs = 1 /\ result = "ProcessResult") => ReportExact

\* C7 witness: a first parallel run returned a report with a passed task, a
\* task that raised and a task failed by propagation.
C7_Witness ==
    /\ RunEnded /\ runs = 1 /\ result = "ProcessResult"
    /\ parallel
    /\ DOMAIN ReportPassed # {}
    /\ \E t \in ReportFailed : outcome[t] = "raised"
    /\ \E t \in ReportFailed : outcome[t] = "none"

\* C8: during a parallel run with max_workers = W at most W callables
\* execute at the same time.
C8_ConcurrencyBound ==
    (InRun /\ parallel) => Cardinality(executing) <= max_workers

\* C8 witness: W callables execute while a further submitted task waits.
C8_Witness ==
    /\ InRun /\ parallel
    /\ Cardinality(executing) = max_workers
    /\ work_queue # <<>>

C10_ReportIndependentOfEarlierRuns ==
    (RunEnded /\ result = "ProcessResult") => ReportExact

\* C11: a ProcessResult is an immutable snapshot: the content of every
\* report that was returned is still what it was when it was returned.
C11_ReportImmutable ==
    \A k \in DOMAIN reports :
        reports[k].result = "ProcessResult" =>
            /\ ReportPassed = reports[k].passed
            /\ ReportFailed = reports[k].failed

\* C12: no name is both a key of passed_results and in failed_tasks, and a
\* name is recorded once: a task whose callable is executing (its outcome is
\* about to be recorded) is in neither.
C12_RecordedOnceInOne ==
    /\ (DOMAIN passed_results) \cap failed_tasks = {}
    /\ \A n \in executing : n \notin (DOMAIN passed_results) \cup failed_tasks

\* Two logged run calls were made in the same mode.
SameMode(a, b) ==
    /\ a.parallel = b.parallel
    /\ a.parallel => a.max_workers = b.max_workers

\* C13: with deterministic callables, two run calls in the same mode yield
\* two reports with the same passed names and the same failed names.
C13_SameModeSameReport ==
    \A a, b \in DOMAIN reports :
        (a < b /\ SameMode(reports[a], reports[b])) =>
            /\ reports[a].result = "ProcessResult"
            /\ reports[b].result = "ProcessResult"
            /\ DOMAIN reports[a].passed = DOMAIN reports[b].passed
            /\ reports[a].failed = reports[b].failed

\* The position _run_sequential's loop has reached (past the end once the
\* call has returned).
SeqPos == IF pc = "idle" THEN Len(tasks) + 1 ELSE idx

C18_OneWorkerIsSequential ==
    [][\A k \in -1..1 : StartRun("True", k) => ProcessRun("False", k)]_vars

\* C18 witness: a call asked for as parallel=True with max_workers <= 1 ended
\* with a report after invoking two tasks, one of which raised.
C18_Witness ==
    /\ RunEnded /\ request[1] = "True" /\ request[2] <= 1
    /\ result = "ProcessResult"
    /\ \E t, u \in Names(tasks) :
          /\ outcome[t] = "raised" /\ outcome[u] = "returned"

\* Process(tasks) has returned or raised.
CtorDone == pc \in {"idle", "ctor_error"} /\ runs = 0

\* C19: construction raises ValueError exactly when the list holds fewer
\* distinct names than tasks, whatever the dependencies and the positions of
\* the tasks that share a name.
C19_DuplicateNameIffValueError ==
    CtorDone =>
        ((ctor_error = "ValueError") <=> (Cardinality(Names(input)) < Len(input)))

\* C19 witness: the first and the last of three tasks share a name, the one
\* between them has another name and a dependency on a task that is absent,
\* and construction raised ValueError.
C19_Witness ==
    /\ ctor_error = "ValueError"
    /\ Len(input) = 3
    /\ input[1].name = input[3].name
    /\ input[2].name # input[1].name
    /\ input[2].dependencies \ Names(input) # {}

\* The list ts with the edge of task k to dep redirected to target.
Redirected(ts, k, dep, target) ==
    [ts EXCEPT ![k].dependencies = (@ \ {dep}) \cup {target}]

\* The edges of ts that name a task that is not in ts.
MissingEdges(ts) ==
    { <<k, dep>> \in (DOMAIN ts) \X TaskNames :
          dep \in ts[k].dependencies /\ dep \notin Names(ts) }

\* The repairs of ts: each redirects one missing edge to a present task
\* that the dependent task does not depend on yet, leaving a list with no
\* missing edge and no cycle.
Repairs(ts) ==
    { r \in { Redirected(ts, e[1], e[2], target) :
                  e \in MissingEdges(ts), target \in Names(ts) } :
          /\ Len(r) = Len(ts)
          /\ \A k \in DOMAIN r :
                /\ r[k].name \notin r[k].dependencies
                /\ Cardinality(r[k].dependencies) = Cardinality(ts[k].dependencies)
          /\ MissingEdges(r) = {}
          /\ ~HasCycle(r) }

\* C20: over uniquely named tasks, construction raises
\* DependencyNotFoundError whenever an edge names a task that is not in the
\* list, and constructing the list with that edge redirected to a present
\* task, no cycle arising, succeeds.
C20_MissingDependencyRejected ==
    (CtorDone /\ Cardinality(Names(input)) = Len(input) /\ MissingEdges(input) # {}) =>
        /\ ctor_error = "DependencyNotFoundError"
        /\ \A r \in Repairs(input) : Validate(r).error = "none"

\* C20 witness: construction raised DependencyNotFoundError for a list of
\* two tasks whose missing edge can be redirected to the task listed after
\* the dependent one.
C20_Witness ==
    /\ ctor_error = "DependencyNotFoundError"
    /\ Len(input) = 2
    /\ \E e \in MissingEdges(input) : \E k \in DOMAIN input :
          /\ k > e[1]
          /\ Redirected(input, e[1], e[2], input[k].name) \in Repairs(input)

\* The Task object of the task named n.
StoredTask(n) == stored[InputIndex(n)]

\* The edges of a task that pass the result on positionally, and by name,
\* in the order of declaration.
ArgEdges(task) ==
    SelectSeq(task.dependencies, LAMBDA d : d.use_result_as_additional_args)

KwEdges(task) ==
    SelectSeq(task.dependencies, LAMBDA d : d.use_result_as_additional_kwargs)

KwEdgeNames(task) ==
    { KwEdges(task)[j].additional_kwarg_name : j \in DOMAIN KwEdges(task) }

\* C14: every callable is called with its task's base args followed by the
\* values of the producers of the edges that have
\* use_result_as_additional_args set, in the order the edges are declared,
\* in every interleaving of the producers.
C14_PositionalInjection ==
    \A n \in TaskNames : \A c \in DOMAIN received[n] :
        LET task == StoredTask(n)
            edges == ArgEdges(task)
        IN  /\ Len(received[n][c].args) = Len(task.args) + Len(edges)
            /\ \A j \in DOMAIN task.args : received[n][c].args[j] = task.args[j]
            /\ \A j \in DOMAIN edges :
                  received[n][c].args[Len(task.args) + j] = FuncValue(edges[j].task_name)

\* C14 witness: a parallel run ended in which a consumer with base args was
\* called with the values of two producers, the edge to the producer listed
\* later being declared first.
C14_Witness ==
    /\ RunEnded /\ parallel
    /\ \E n \in Names(tasks) :
          /\ received[n] # <<>>
          /\ StoredTask(n).args # <<>>
          /\ Len(ArgEdges(StoredTask(n))) = 2
          /\ ArgEdges(StoredTask(n))[1].task_name > ArgEdges(StoredTask(n))[2].task_name

\* What C15 says of the keyword arguments kw a task was called with, apart
\* from the values of the injected entries: the keys are those of the base
\* kwargs and the names of the edges that have
\* use_result_as_additional_kwargs set, and a base entry no edge names is
\* passed as it is.
KwargsFrame(task, kw) ==
    /\ DOMAIN kw = (DOMAIN task.kwargs) \cup KwEdgeNames(task)
    /\ \A key \in (DOMAIN task.kwargs) \ KwEdgeNames(task) : kw[key] = task.kwargs[key]

\* C15 as stated: the keyword arguments are the base kwargs with, for every
\* edge that has use_result_as_additional_kwargs set, the entry
\* additional_kwarg_name -> producer's value, added or replacing a base
\* entry; an edge with both flags also delivers positionally (C14), an edge
\* with neither adds no key.
C15_KeywordInjection ==
    \A n \in TaskNames : \A c \in DOMAIN received[n] :
        LET task == StoredTask(n)
            kw == received[n][c].kwargs
        IN  /\ KwargsFrame(task, kw)
            /\ \A j \in DOMAIN KwEdges(task) :
                  kw[KwEdges(task)[j].additional_kwarg_name]
                      = FuncValue(KwEdges(task)[j].task_name)

\* The position in KwEdges(task) of the last edge declared with the name key.
LastKwEdge(task, key) ==
    CHOOSE j \in DOMAIN KwEdges(task) :
        /\ KwEdges(task)[j].additional_kwarg_name = key
        /\ \A i \in DOMAIN KwEdges(task) :
              KwEdges(task)[i].additional_kwarg_name = key => i <= j

\* C15 amended: as C15, but when several edges carry the same
\* additional_kwarg_name the entry holds the value of the producer of the
\* edge declared last among them.
C15_KeywordInjectionLastWins ==
    \A n \in TaskNames : \A c \in DOMAIN received[n] :
        LET task == StoredTask(n)
            kw == received[n][c].kwargs
        IN  /\ KwargsFrame(task, kw)
            /\ \A key \in KwEdgeNames(task) :
                  kw[key] = FuncValue(KwEdges(task)[LastKwEdge(task, key)].task_name)

\* C15 witness: a consumer with a base entry "a" was called after an edge
\* with both flags replaced that entry and another edge added the entry "b".
C15_Witness ==
    \E n \in Names(tasks) :
        /\ received[n] # <<>>
        /\ "a" \in DOMAIN StoredTask(n).kwargs
        /\ \E i, j \in DOMAIN StoredTask(n).dependencies :
              /\ StoredTask(n).dependencies[i].use_result_as_additional_args
              /\ StoredTask(n).dependencies[i].use_result_as_additional_kwargs
              /\ StoredTask(n).dependencies[i].additional_kwarg_name = "a"
              /\ StoredTask(n).dependencies[j].use_result_as_additional_kwargs
              /\ StoredTask(n).dependencies[j].additional_kwarg_name = "b"

\* All calls of each callable so far had as many positional arguments and
\* the same keywords.
SameArgumentCounts ==
    \A n \in TaskNames : \A c, d \in DOMAIN received[n] :
        /\ Len(received[n][c].args) = Len(received[n][d].args)
        /\ DOMAIN received[n][c].kwargs = DOMAIN received[n][d].kwargs

\* C16: no step of any run call, in any mode, changes the stored args,
\* kwargs or dependencies of a Task, and a later call of a callable passes
\* as many arguments as an earlier one.
C16_StoredArgumentsKept ==
    [][stored' = stored /\ SameArgumentCounts']_vars

\* C16 witness: a consumer that receives injected positional and keyword
\* arguments has been called in two run calls.
C16_Witness ==
    \E n \in Names(tasks) :
        /\ Len(received[n]) = 2
        /\ Len(received[n][2].args) > Len(StoredTask(n).args)
        /\ DOMAIN received[n][2].kwargs # DOMAIN StoredTask(n).kwargs

\* The positions in input of the tasks that are ready when the sort is about
\* to emit its k-th task: not emitted yet, all dependencies emitted.
ReadyAt(k) ==
    LET emitted == { tasks[i].name : i \in 1..(k - 1) }
    IN  { j \in DOMAIN input :
            /\ input[j].name \notin emitted
            /\ input[j].dependencies \subseteq emitted }

\* C21: the sort breaks ties by input order: the k-th task of the sorted
\* list is, among the tasks ready at that step, the one that comes first in
\* the input list.
C21_TieBreakByInputOrder ==
    (pc = "idle" /\ runs = 0) =>
        \A k \in DOMAIN tasks :
            /\ ReadyAt(k) # {}
            /\ tasks[k] = input[CHOOSE j \in ReadyAt(k) : \A i \in ReadyAt(k) : j <= i]

\* C22: Task.run never raises: no run call ends with an exception that left
\* Task.run, and no future holds one.
C22_TaskRunNeverRaises ==
    /\ result # "AttributeError"
    /\ \A n \in DOMAIN fut_result : fut_result[n].exception # "AttributeError"

\* The positions in the log of the records of the given kind of task n.
LogPositions(kind, n) == { i \in DOMAIN log : log[i] = <<kind, n>> }

\* C29: in a run call every invocation of a task gives exactly one start
\* record followed by exactly one finish record, a success record if the
\* callable returned and a failure record if it raised; a task that was not
\* invoked gives no record; and in a sequential run call the finish record
\* of a task comes right after its start record.
C29_StartThenFinish ==
    (Constructed /\ runs > 0) =>
        /\ \A n \in TaskNames :
              LET starts == LogPositions("start", n)
                  successes == LogPositions("success", n)
                  failures == LogPositions("failure", n)
              IN  /\ Cardinality(starts) = calls[n]
                  /\ Cardinality(successes \cup failures)
                        = calls[n] - (IF n \in executing THEN 1 ELSE 0)
                  /\ (n \notin executing /\ outcome[n] = "returned") => failures = {}
                  /\ (n \notin executing /\ outcome[n] = "raised") => successes = {}
                  /\ \A i \in successes \cup failures : \E j \in starts : j < i
        /\ ~parallel =>
              \A i \in DOMAIN log :
                  (log[i][1] = "start" /\ i < Len(log)) =>
                      /\ log[i + 1][1] # "start"
                      /\ log[i + 1][2] = log[i][2]

\* C28: construction raises TypeError whenever the list holds an element
\* that is not a Task, wherever it stands in the list.
C28_NonTaskIsTypeError ==
    (CtorDone /\ \E k \in DOMAIN input : input[k] = NotATask) =>
        ctor_error = "TypeError"

\* ---- Task construction ----

TaskConstructed == call[1] = "Task" /\ answer.error # "unset"

DuplicateProducer(ds) ==
    \E i, j \in DOMAIN ds : i # j /\ ds[i].task_name = ds[j].task_name

SelfReference(nm, ds) == \E i \in DOMAIN ds : ds[i].task_name = nm

\* C23: Task construction raises ValueError whenever two edges of the
\* dependency list name the same producer or an edge names the task itself;
\* a constructed Task has neither in its edge list.
C23_NoDuplicateNoSelfEdge ==
    TaskConstructed =>
        /\ (DuplicateProducer(call[2].dependencies)
              \/ SelfReference(call[2].name, call[2].dependencies))
             => answer.error = "ValueError"
        /\ answer.error = "none" =>
             /\ ~DuplicateProducer(answer.value.dependencies)
             /\ ~SelfReference(answer.value.name, answer.value.dependencies)

C23_Witness ==
    /\ TaskConstructed
    /\ ~ContainsSpace(call[2].name)
    /\ Len(call[2].dependencies) = 2
    /\ ~DuplicateProducer(call[2].dependencies)
    /\ call[2].dependencies[2].task_name = call[2].name
    /\ answer.error = "ValueError"

Whitespace == {" ", "\t", "\n"}

\* C24: Task construction raises for the empty name and for every name that
\* contains a space, a tab or a newline.
C24_InvalidNameRejected ==
    (TaskConstructed
       /\ (call[2].name = <<>> \/ \E i \in DOMAIN call[2].name : call[2].name[i] \in Whitespace))
      => answer.error # "none"

\* ---- Queries ----

\* The tasks that declare n as a dependency, directly or through other tasks.
Dependants(n) == { t \in Names(tasks) : n \in TransitiveDeps(tasks, t) }

\* C25: get_dependant_tasks(n) returns exactly the tasks that directly or
\* transitively depend on n, each once, never n itself, and the empty list
\* when nothing depends on n.
C25_TransitiveDependants ==
    call[1] = "get_dependant_tasks" =>
        LET found == answer.value IN
          /\ answer.error = "none"
          /\ \A i \in DOMAIN found : found[i] \in SeqToSet(tasks)
          /\ { found[i].name : i \in DOMAIN found } = Dependants(call[2])
          /\ \A i, j \in DOMAIN found : i # j => found[i].name # found[j].name
          /\ \A i \in DOMAIN found : found[i].name # call[2]
          /\ (Dependants(call[2]) = {} => found = <<>>)

C25_Witness ==
    /\ call = <<"get_dependant_tasks", 1>>
    /\ Len(input) = 3
    /\ input[2].dependencies = {1}
    /\ input[3].dependencies = {2}
    /\ Len(answer.value) = 2

\* C26: get_task(n) returns the one task called n when the graph has it and
\* raises TaskNotFoundError otherwise, and leaves the task list as it was.
C26_GetTaskByName ==
    [][ call'[1] = "get_task" =>
          /\ tasks' = tasks
          /\ IF call'[2] \in Names(tasks)
             THEN /\ answer'.error = "none"
                  /\ answer'.value \in SeqToSet(tasks)
                  /\ answer'.value.name = call'[2]
                  /\ Cardinality({ k \in DOMAIN tasks : tasks[k].name = call'[2] }) = 1
             ELSE answer'.error = "TaskNotFoundError" ]_vars

C26_Witness ==
    /\ call = <<"get_task", 3>>
    /\ Len(tasks) = 2
    /\ answer.error = "TaskNotFoundError"

\* C27: a run called with parallel=None uses the parallel strategy exactly
\* when the Process has 10 or more tasks and max_workers is at least 2, and
\* the sequential strategy otherwise.
C27_AutoParallelAtTen ==
    (runs > 0 /\ request[1] = "None") =>
        /\ parallel = (Len(tasks) >= 10 /\ request[2] >= 2)
        /\ pc = IF Len(tasks) >= 10 /\ request[2] >= 2 THEN "par" ELSE "seq"

C27_Witness ==
    /\ runs > 0
    /\ request = <<"None", 2>>
    /\ Len(tasks) = 10
    /\ pc = "par"

\* ---- Order of the input list ----

\* The list ts with the elements at positions i and i + 1 exchanged.
SwapAdjacent(ts, i) ==
    [k \in DOMAIN ts |-> IF k = i THEN ts[i + 1] ELSE IF k = i + 1 THEN ts[i] ELSE ts[k]]

\* The tasks of the input whose callable raises, or one of whose direct or
\* transitive dependencies has a callable that raises.
MustFail ==
    { t \in Names(input) :
        \/ fixed[t] = "raised"
        \/ \E a \in TransitiveDeps(input, t) : fixed[a] = "raised" }

\* C30: the order of the input list is irrelevant: exchanging two neighbours
\* of the list leaves the construction result (success or the kind of error)
\* unchanged, and with callables that always return or always raise the
\* report of the first sequential run is determined by the set of tasks
\* alone (same passed names and values, same failed names).
C30_InputOrderIrrelevant ==
    /\ CtorDone =>
         /\ \A i \in 1..(Len(input) - 1) :
               Validate(SwapAdjacent(input, i)).error = ctor_error
    /\ (RunEnded /\ runs = 1 /\ ~parallel) =>
         /\ result = "ProcessResult"
         /\ failed_tasks = MustFail
         /\ DOMAIN passed_results = Names(input) \ MustFail
         /\ \A n \in DOMAIN passed_results :
               passed_results[n] = TaskResult(TRUE, FuncValue(n), "None")

C30_Witness ==
    /\ RunEnded
    /\ runs = 1
    /\ Len(input) = 3
    /\ input[1] = Task(3, {2})
    /\ input[2] = Task(2, {1})
    /\ input[3] = Task(1, {})
    /\ fixed[2] = "raised"
    /\ failed_tasks = {2, 3}
    /\ DOMAIN passed_results = {1}

\* ---- Cycle report ----

\* C31: the CircularDependencyError of a failed construction names a path of
\* tasks that starts and ends at the same task and follows dependency edges.
C31_CycleErrorNamesPath ==
    (CtorDone /\ ctor_error = "CircularDependencyError") =>
        LET path == answer.value IN
          /\ Len(path) >= 2
          /\ path[1] = path[Len(path)]
          /\ \A i \in 1..(Len(path) - 1) : path[i + 1] \in DepsOf(input, path[i])

\* ---- Parallel run under every schedule ----

\* _run_parallel from its loop test on, for the schedule in which the future
\* submitted first is the one that completes, one completion per wait; fx
\* gives each callable's outcome.
RECURSIVE FifoParallelRun(_, _, _, _, _, _)
FifoParallelRun(ts, passed, failed, submitted, inflight, fx) ==
    IF Cardinality(DOMAIN passed) + Cardinality(failed) >= Len(ts)
    THEN [result |-> "ProcessResult", passed |-> passed, failed |-> failed]
    ELSE LET s == Scan(ts, 1, submitted, failed, passed, <<>>)
             futs == inflight \o s.candidates
             sub == submitted \cup SeqToSet(s.candidates)
         IN  IF futs = <<>>
             THEN [result |-> "RuntimeError", passed |-> passed, failed |-> s.failed]
             ELSE LET n == Head(futs) IN
                  IF fx[n] = "raised"
                  THEN FifoParallelRun(ts, passed, s.failed \cup {n}, sub, Tail(futs), fx)
                  ELSE FifoParallelRun(ts, Put(passed, n, TaskRun(TaskNamed(ts, n), FALSE)),
                                       s.failed, sub, Tail(futs), fx)

\* C32: with a fixed outcome per task, the first parallel run ends the same
\* way (the same report, or the same error) for every max_workers >= 2 and
\* every completion order: the way it ends when completions come in
\* submission order.
C32_ParallelResultScheduleFree ==
    (RunEnded /\ runs = 1 /\ parallel) =>
        LET r == FifoParallelRun(tasks, EmptyMap, {}, {}, <<>>, fixed) IN
          /\ result = r.result
          /\ result = "ProcessResult" =>
                /\ passed_results = r.passed
                /\ failed_tasks = r.failed

\* ---- The candidate scan ----

\* A step of the parallel loop that evaluates the candidates comprehension.
ScanStep ==
    /\ pc = "par"
    /\ pc' # "par"
    /\ Cardinality(DOMAIN passed_results) + Cardinality(failed_tasks) < Len(tasks)

Occurrences(q, n) == Cardinality({ i \in DOMAIN q : q[i] = n })

Running == pc \in {"seq", "seq_call", "par", "par_wait", "par_exit"}

\* The tasks that are in passed_results or in failed_tasks.
Resolved == (DOMAIN passed_results) \cup failed_tasks

WorkerStep == pc \in {"par", "par_wait", "par_exit"} /\ executing' # executing

\* The entries of passed_results under the keys in names.
Entries(names) == [k \in names |-> passed_results[k]]

\* C36: in a parallel run the pool threads never write passed_results,
\* failed_tasks or submitted_tasks, and a thread that starts a task reads
\* from passed_results only the entries of that task's dependencies.
C36_EngineOwnsState ==
    [][ WorkerStep =>
          /\ passed_results' = passed_results
          /\ failed_tasks' = failed_tasks
          /\ submitted_tasks' = submitted_tasks
          /\ \A n \in executing' \ executing :
                /\ received'[n] # <<>>
                /\ received'[n][Len(received'[n])] =
                      FinalCall(StoredTask(n), Entries(DepsOf(tasks, n))) ]_vars

C36_Witness ==
    /\ pc = "par_wait"
    /\ \E n \in executing :
          /\ DepsOf(tasks, n) # {}
          /\ received[n] # <<>>
          /\ received[n][Len(received[n])].args # StoredTask(n).args
    /\ Cardinality(executing) >= 2

\* ---- Dependency lookup ----

\* C37: while Task.run of a task is in progress, in either mode and in any
\* run call, every dependency name of the task is a key of passed_results,
\* and no key is ever removed from passed_results.
C37_LookupNeverFails ==
    /\ [][ \A c \in executing' : DepsOf(tasks', c) \subseteq DOMAIN passed_results' ]_vars
    /\ [][ pc # "new" => DOMAIN passed_results \subseteq DOMAIN passed_results' ]_vars

C37_Witness ==
    /\ runs = 2
    /\ ~parallel
    /\ \E c \in executing :
          /\ DepsOf(tasks, c) # {}
          /\ DepsOf(tasks, c) \subseteq DOMAIN passed_results
          /\ failed_tasks # {}

\* ---- Several structural defects at once ----

\* The pairs <<a, b>> such that a task named a declares a dependency on b.
DependsOn(ts) ==
    { e \in TaskNames \X TaskNames :
          \E k \in DOMAIN ts : ts[k].name = e[1] /\ e[2] \in ts[k].dependencies }

\* The names reached from the names in from by at most n more edges.
RECURSIVE ReachedFrom(_, _, _)
ReachedFrom(edges, from, n) ==
    IF n = 0 THEN from
    ELSE ReachedFrom(edges, from \cup { e[2] : e \in { d \in edges : d[1] \in from } }, n - 1)

\* Some name is reached from its own dependencies.
Cyclic(ts) ==
    \E a \in TaskNames :
        a \in ReachedFrom(DependsOn(ts), { e[2] : e \in { d \in DependsOn(ts) : d[1] = a } },
                          MaxTasks)

\* C38: construction raises one error chosen by a fixed precedence: a
\* duplicate name before a missing dependency, a missing dependency before
\* a cycle, wherever the defects stand in the list; without a defect it
\* succeeds.
C38_CheckPrecedence ==
    CtorDone =>
        ctor_error =
            IF Cardinality(Names(input)) < Len(input) THEN "ValueError"
            ELSE IF MissingEdges(input) # {} THEN "DependencyNotFoundError"
            ELSE IF Cyclic(input) THEN "CircularDependencyError"
            ELSE "none"

C38_Witness ==
    /\ CtorDone
    /\ ctor_error = "ValueError"
    /\ Len(input) = 3
    /\ Cyclic(input)
    /\ \E e \in MissingEdges(input) : e[1] = 1
    /\ input[2].name = input[3].name

\* ---- Failed construction ----

\* C39: a construction that fails with a structural error invokes no
\* callable, leaves the caller's list in its order, and leaves every Task
\* with its arguments, its dependencies and the handlers attached to its
\* logger.
C39_FailedConstructionNoEffect ==
    (CtorDone /\ ctor_error # "none") =>
        /\ \A n \in TaskNames : calls[n] = 0
        /\ tasks = input
        /\ stored = PlainTasks(input)
        /\ \A n \in Names(input) : handlers[n] # <<>> /\ handlers[n][1] = "file"

\* ---- Downstream-impact annotation ----

\* The names a failure annotation lists.
Listed(r) == { r.skipped[i] : i \in DOMAIN r.skipped }

\* C40: the annotation of a failed callable lists exactly the transitive
\* dependents of its task, each once; a listed task is not invoked in that
\* run call and is in failed_tasks when the call ends; and every task not
\* invoked in a first run call is listed by the annotation of some task
\* whose callable failed.
C40_AnnotationMatchesRun ==
    Constructed =>
        /\ \A i \in DOMAIN log :
              /\ Listed(log[i]) = { t \in Names(tasks) : log[i].task \in TransitiveDeps(tasks, t) }
              /\ Cardinality(Listed(log[i])) = Len(log[i].skipped)
              /\ outcome[log[i].task] = "raised"
              /\ \A t \in Listed(log[i]) :
                    calls[t] = 0 /\ (RunEnded => t \in failed_tasks)
        /\ (RunEnded /\ runs = 1) =>
              \A t \in Names(tasks) :
                  calls[t] = 0 => \E i \in DOMAIN log : t \in Listed(log[i])

====
